---- MODULE Spec2Model ----
(***************************************************************************)
(* JsonRS (src/main.rs): a lexer that turns a character vector into a      *)
(* token vector and a recursive-descent parser that turns the token vector *)
(* into a JsonExpression or an error string.                               *)
(*                                                                         *)
(* Vectors are 0-based in the source and 1-based here: the source's v[i]   *)
(* is written v[i + 1], the slice v[a..b] is SubSeq(v, a + 1, b).  An      *)
(* out-of-range index or slice, and unwrap() on Err, abort the program:    *)
(* result becomes Panic and nothing runs afterwards.                       *)
(***************************************************************************)
EXTENDS Integers, Sequences, FiniteSets, TLC

VARIABLES source, index, start, s, tokens, current, stack, ret, pc, result

vars == <<source, index, start, s, tokens, current, stack, ret, pc, result>>

(* ------------------------------ bounds -------------------------------- *)

MaxLen == 4
MaxTokens == 5
MaxMembers == 2

(* ---------------------------- characters ------------------------------ *)

Whitespace == {" ", "\n", "\t", "\r"}
Punctuation == {"{", "}", "[", "]", ",", ":"}
Quote == "\""
Backslash == "\\"
Digits == {"1"}
Point == "."

Chars == Whitespace \cup Punctuation \cup {Quote, Backslash, Point} \cup Digits

(* ------------------------------ tokens -------------------------------- *)

LeftBrace == <<"LeftBrace">>
RightBrace == <<"RightBrace">>
LeftBracket == <<"LeftBracket">>
RightBracket == <<"RightBracket">>
Comma == <<"Comma">>
Colon == <<"Colon">>
NumberLiteral(n) == <<"NumberLiteral", n>>
StringLiteral(str) == <<"StringLiteral", str>>

(* ------------------------- results and values ------------------------- *)

Number(n) == <<"Number", n>>
String(str) == <<"String", str>>
Array(elements) == <<"Array", elements>>
Object(pairs) == <<"Object", pairs>>

Ok(v) == <<"Ok", v>>
Err(msg) == <<"Err", msg>>
Panic == <<"Panic">>
None == <<"None">>

(* ------------------------------- lexer -------------------------------- *)

\* self.source[i]
CharAt(src, i) == src[i + 1]

\* self.source[a..b].iter().collect(); the caller checks b <= len
Slice(src, a, b) == SubSeq(src, a + 1, b)

is_delim(c) ==
    \/ c = "," \/ c = "{" \/ c = "}" \/ c = "[" \/ c = "]" \/ c = ":"
    \/ c = "\n" \/ c = "\t" \/ c = "\r"

PunctToken(c) ==
    CASE c = "{" -> LeftBrace
      [] c = "}" -> RightBrace
      [] c = "[" -> LeftBracket
      [] c = "]" -> RightBracket
      [] c = "," -> Comma
      [] c = ":" -> Colon

\* the inner loop of the string arm: the index it stops at (may be len + 1)
RECURSIVE ScanStringNoEscape(_, _)
ScanStringNoEscape(src, i) ==
    IF i < Len(src) /\ CharAt(src, i) # Quote
    THEN ScanStringNoEscape(src, i + 1)
    ELSE i

RECURSIVE ScanString(_, _)
ScanString(src, i) ==
    IF i < Len(src) /\ CharAt(src, i) # Quote
    THEN ScanString(src, IF CharAt(src, i) = Backslash THEN i + 2 ELSE i + 1)
    ELSE i

\* the inner loop of the bareword arm: the index it stops at
RECURSIVE ScanBareword(_, _)
ScanBareword(src, i) ==
    IF i < Len(src) /\ ~is_delim(CharAt(src, i))
    THEN ScanBareword(src, i + 1)
    ELSE i

\* index -= 1 after a bareword, before the outer loop's index += 1
RewindNone(i) == i

Rewind(i) == i - 1

RECURSIVE DigitsValue(_)
DigitsValue(ds) ==
    IF ds = <<>> THEN 0
    ELSE 10 * DigitsValue(SubSeq(ds, 1, Len(ds) - 1)) + 1

\* s.parse::<f64>() over the characters of Chars: digits with at most one
\* point and at least one digit; the value is <<mantissa, fraction digits>>
ParseF64(str) ==
    LET points == {i \in 1..Len(str) : str[i] = Point}
        digits == {i \in 1..Len(str) : str[i] \in Digits}
    IN  IF /\ points \cup digits = 1..Len(str)
           /\ Cardinality(points) <= 1
           /\ digits # {}
        THEN Ok(<<DigitsValue(SelectSeq(str, LAMBDA c : c \in Digits)),
                  IF points = {} THEN 0
                  ELSE Len(str) - (CHOOSE i \in points : TRUE)>>)
        ELSE Err("invalid float literal")

Sources == UNION {[1..n -> Chars] : n \in 0..MaxLen}

\* Lexer::new(source), then lex() up to the loop head
InitLex ==
    /\ source \in Sources
    /\ index = 0
    /\ start = 0
    /\ s = <<>>
    /\ tokens = <<>>
    /\ current = 0
    /\ stack = <<>>
    /\ ret = None
    /\ pc = "lex"
    /\ result = None

LexWhitespace ==
    /\ pc = "lex"
    /\ index < Len(source)
    /\ CharAt(source, index) \in {" ", "\n", "\t", "\r"}
    /\ index' = index + 1
    /\ UNCHANGED <<source, start, s, tokens, current, stack, ret, pc, result>>

LexPunctuation ==
    /\ pc = "lex"
    /\ index < Len(source)
    /\ CharAt(source, index) \in Punctuation
    /\ tokens' = Append(tokens, PunctToken(CharAt(source, index)))
    /\ index' = index + 1
    /\ UNCHANGED <<source, start, s, current, stack, ret, pc, result>>

LexString ==
    /\ pc = "lex"
    /\ index < Len(source)
    /\ CharAt(source, index) = Quote
    /\ LET st == index + 1
           end == ScanString(source, st)
       IN  /\ start' = st
           /\ IF end > Len(source)
              THEN /\ index' = end
                   /\ pc' = "done"
                   /\ result' = Panic
                   /\ UNCHANGED <<s, tokens>>
              ELSE /\ s' = Slice(source, st, end)
                   /\ tokens' = Append(tokens, StringLiteral(Slice(source, st, end)))
                   /\ index' = end + 1
                   /\ UNCHANGED <<pc, result>>
    /\ UNCHANGED <<source, current, stack, ret>>

LexNumber ==
    /\ pc = "lex"
    /\ index < Len(source)
    /\ CharAt(source, index) \notin Whitespace \cup Punctuation \cup {Quote}
    /\ LET end == ScanBareword(source, index)
           str == Slice(source, index, end)
           parsed == ParseF64(str)
       IN  /\ start' = index
           /\ s' = str
           /\ IF parsed[1] = "Err"
              THEN /\ index' = end
                   /\ pc' = "done"
                   /\ result' = Panic
                   /\ UNCHANGED tokens
              ELSE /\ tokens' = Append(tokens, NumberLiteral(parsed[2]))
                   /\ index' = Rewind(end) + 1
                   /\ UNCHANGED <<pc, result>>
    /\ UNCHANGED <<source, current, stack, ret>>

\* the outer loop's condition fails: lex() returns
LexReturn ==
    /\ pc = "lex"
    /\ index >= Len(source)
    /\ pc' = "lexed"
    /\ UNCHANGED <<source, index, start, s, tokens, current, stack, ret, result>>

NextLex == LexWhitespace \/ LexPunctuation \/ LexString \/ LexNumber \/ LexReturn

SpecLex == InitLex /\ [][NextLex]_vars

(* ------------------------------- parser ------------------------------- *)

\* self.tokens[i]
TokenAt(toks, i) == toks[i + 1]

\* a call of parse_array or parse_object suspended in parse_expression
Frame(fn, acc, key) == [fn |-> fn, acc |-> acc, key |-> key]

Top == stack[Len(stack)]
Pop == SubSeq(stack, 1, Len(stack) - 1)

\* the match of Parser::parse: the function called, or "Err"
ParseMatchAnyExpression(tok) ==
    CASE tok = LeftBrace -> "parse_object"
      [] tok = LeftBracket -> "parse_array"
      [] OTHER -> "parse_expression"

ParseMatch(tok) ==
    CASE tok = LeftBrace -> "parse_object"
      [] tok = LeftBracket -> "parse_array"
      [] OTHER -> "Err"

\* if let Token::RightBracket = self.tokens[self.current]
IsRightBracketNever(tok) == FALSE

IsRightBracket(tok) == tok = RightBracket

\* if let Token::RightBrace = self.tokens[self.current]
IsRightBrace(tok) == tok = RightBrace

\* the match after an element of the array loop: TRUE to parse another
\* element (the comma is consumed), FALSE to break
ArrayContinuesLenient(toks, cur) ==
    /\ TokenAt(toks, cur) = Comma
    /\ ~(cur + 1 < Len(toks) /\ TokenAt(toks, cur + 1) = RightBracket)

ArrayContinues(toks, cur) == TokenAt(toks, cur) = Comma

\* key_values_pairs.push((key, Box::new(value)))
PushPairReplacing(pairs, key, value) ==
    IF \E i \in 1..Len(pairs) : pairs[i][1] = key
    THEN [i \in 1..Len(pairs) |->
            IF pairs[i][1] = key THEN <<key, value>> ELSE pairs[i]]
    ELSE Append(pairs, <<key, value>>)

PushPair(pairs, key, value) == Append(pairs, <<key, value>>)

\* an access self.tokens[self.current] past the end of the vector
Abort ==
    /\ pc' = "done"
    /\ result' = Panic
    /\ UNCHANGED <<current, stack, ret>>

\* return v from the running function to its caller
Return(v, cur, stk) ==
    /\ ret' = v
    /\ current' = cur
    /\ stack' = stk
    /\ pc' = "return"
    /\ UNCHANGED result

Parse ==
    /\ pc = "parse"
    /\ IF current >= Len(tokens) THEN Abort
       ELSE LET target == ParseMatch(TokenAt(tokens, current))
            IN  IF target = "Err" THEN Return(Err(""), current, stack)
                ELSE /\ pc' = target
                     /\ UNCHANGED <<current, stack, ret, result>>
    /\ UNCHANGED <<source, index, start, s, tokens>>

ParseExpression ==
    /\ pc = "parse_expression"
    /\ IF current >= Len(tokens) THEN Abort
       ELSE LET token == TokenAt(tokens, current)
            IN  CASE token = LeftBracket ->
                       /\ pc' = "parse_array"
                       /\ UNCHANGED <<current, stack, ret, result>>
                  [] token = LeftBrace ->
                       /\ pc' = "parse_object"
                       /\ UNCHANGED <<current, stack, ret, result>>
                  [] token[1] = "NumberLiteral" ->
                       Return(Ok(Number(token[2])), current + 1, stack)
                  [] token[1] = "StringLiteral" ->
                       Return(Ok(String(token[2])), current + 1, stack)
                  [] OTHER ->
                       Return(Err("Unexpected token at start of expression..."),
                              current, stack)
    /\ UNCHANGED <<source, index, start, s, tokens>>

\* parse_array up to its first call of parse_expression
ParseArrayOpen ==
    /\ pc = "parse_array"
    /\ IF current >= Len(tokens) THEN Abort
       ELSE IF TokenAt(tokens, current) # LeftBracket
       THEN Return(Err("Expected left bracket..."), current, stack)
       ELSE IF current + 1 >= Len(tokens)
       THEN /\ current' = current + 1
            /\ pc' = "done"
            /\ result' = Panic
            /\ UNCHANGED <<stack, ret>>
       ELSE IF IsRightBracket(TokenAt(tokens, current + 1))
       THEN Return(Ok(Array(<<>>)), current + 2, stack)
       ELSE /\ current' = current + 1
            /\ stack' = Append(stack, Frame("parse_array", <<>>, <<>>))
            /\ pc' = "parse_expression"
            /\ UNCHANGED <<ret, result>>
    /\ UNCHANGED <<source, index, start, s, tokens>>

\* parse_array from the return of parse_expression to the next call or return
ParseArrayElement ==
    /\ pc = "return"
    /\ stack # <<>>
    /\ Top.fn = "parse_array"
    /\ IF ret[1] = "Err" THEN Return(ret, current, Pop)
       ELSE LET elements == Append(Top.acc, ret[2])
            IN  IF current >= Len(tokens)
                THEN /\ stack' = [stack EXCEPT ![Len(stack)].acc = elements]
                     /\ pc' = "done"
                     /\ result' = Panic
                     /\ UNCHANGED <<current, ret>>
                ELSE IF ArrayContinues(tokens, current)
                THEN /\ current' = current + 1
                     /\ stack' = [stack EXCEPT ![Len(stack)].acc = elements]
                     /\ pc' = "parse_expression"
                     /\ UNCHANGED <<ret, result>>
                ELSE IF TokenAt(tokens, current) = RightBracket
                THEN Return(Ok(Array(elements)), current + 1, Pop)
                ELSE Return(Err("Expected right bracket..."), current, Pop)
    /\ UNCHANGED <<source, index, start, s, tokens>>

\* parse_object up to the head of its loop
ParseObjectOpen ==
    /\ pc = "parse_object"
    /\ IF current >= Len(tokens) THEN Abort
       ELSE IF TokenAt(tokens, current) # LeftBrace
       THEN Return(Err("Expected left brace..."), current, stack)
       ELSE IF current + 1 >= Len(tokens)
       THEN /\ current' = current + 1
            /\ pc' = "done"
            /\ result' = Panic
            /\ UNCHANGED <<stack, ret>>
       ELSE IF IsRightBrace(TokenAt(tokens, current + 1))
       THEN Return(Ok(Object(<<>>)), current + 2, stack)
       ELSE /\ current' = current + 1
            /\ stack' = Append(stack, Frame("parse_object", <<>>, <<>>))
            /\ pc' = "object_key"
            /\ UNCHANGED <<ret, result>>
    /\ UNCHANGED <<source, index, start, s, tokens>>

\* the loop of parse_object from its head to the call of parse_expression
ParseObjectKey ==
    /\ pc = "object_key"
    /\ IF current >= Len(tokens) THEN Abort
       ELSE IF TokenAt(tokens, current)[1] # "StringLiteral"
       THEN Return(Err("Expected string literal..."), current, Pop)
       ELSE IF current + 1 >= Len(tokens)
       THEN /\ current' = current + 1
            /\ stack' = [stack EXCEPT ![Len(stack)].key = TokenAt(tokens, current)[2]]
            /\ pc' = "done"
            /\ result' = Panic
            /\ UNCHANGED ret
       ELSE IF TokenAt(tokens, current + 1) # Colon
       THEN Return(Err("Expected colon..."), current + 1, Pop)
       ELSE /\ current' = current + 2
            /\ stack' = [stack EXCEPT ![Len(stack)].key = TokenAt(tokens, current)[2]]
            /\ pc' = "parse_expression"
            /\ UNCHANGED <<ret, result>>
    /\ UNCHANGED <<source, index, start, s, tokens>>

\* parse_object from the return of parse_expression to the loop head or return
ParseObjectValue ==
    /\ pc = "return"
    /\ stack # <<>>
    /\ Top.fn = "parse_object"
    /\ IF ret[1] = "Err" THEN Return(ret, current, Pop)
       ELSE LET pairs == PushPair(Top.acc, Top.key, ret[2])
            IN  IF current >= Len(tokens)
                THEN /\ stack' = [stack EXCEPT ![Len(stack)].acc = pairs]
                     /\ pc' = "done"
                     /\ result' = Panic
                     /\ UNCHANGED <<current, ret>>
                ELSE IF TokenAt(tokens, current) = Comma
                THEN /\ current' = current + 1
                     /\ stack' = [stack EXCEPT ![Len(stack)].acc = pairs]
                     /\ pc' = "object_key"
                     /\ UNCHANGED <<ret, result>>
                ELSE IF TokenAt(tokens, current) = RightBrace
                THEN Return(Ok(Object(pairs)), current + 1, Pop)
                ELSE Return(Err("Expected right brace..."), current, Pop)
    /\ UNCHANGED <<source, index, start, s, tokens>>

\* parse() returns to json(), which returns its result
JsonReturn ==
    /\ pc = "return"
    /\ stack = <<>>
    /\ result' = ret
    /\ pc' = "done"
    /\ UNCHANGED <<source, index, start, s, tokens, current, stack, ret>>

(* ------------------------------ inputs -------------------------------- *)

Keys == {<<"a">>, <<"b">>}
One == <<1, 0>>

Tokens ==
    {LeftBrace, RightBrace, LeftBracket, RightBracket, Comma, Colon,
     NumberLiteral(One)} \cup {StringLiteral(k) : k \in Keys}

TokenSeqs == UNION {[1..n -> Tokens] : n \in 0..MaxTokens}

\* the tokens of a value, as the grammar of spec.md section 6 writes it
RECURSIVE TokensOf(_)
RECURSIVE TokensOfList(_, _)
TokensOfList(items, isObject) ==
    IF items = <<>> THEN <<>>
    ELSE LET item == items[1]
             one == IF isObject
                    THEN <<StringLiteral(item[1]), Colon>> \o TokensOf(item[2])
                    ELSE TokensOf(item)
         IN  IF Len(items) = 1 THEN one
             ELSE one \o <<Comma>> \o TokensOfList(Tail(items), isObject)

TokensOf(v) ==
    CASE v[1] = "Number" -> <<NumberLiteral(v[2])>>
      [] v[1] = "String" -> <<StringLiteral(v[2])>>
      [] v[1] = "Array" -> <<LeftBracket>> \o TokensOfList(v[2], FALSE) \o <<RightBracket>>
      [] v[1] = "Object" -> <<LeftBrace>> \o TokensOfList(v[2], TRUE) \o <<RightBrace>>

Scalars == {Number(One), String(<<"a">>)}
Values0 == Scalars \cup {Array(<<>>), Object(<<>>)}
Values ==
    Values0 \cup {Array(<<v>>) : v \in Values0}
            \cup {Object(<<<<k, v>>>>) : k \in Keys, v \in Values0}

Members == Keys \X Values

ObjectDocs == {Object(ms) : ms \in UNION {[1..n -> Members] : n \in 0..MaxMembers}}

ObjectDocTokens == {TokensOf(d) : d \in ObjectDocs}

\* json(): Lexer::lex has returned and Parser::new(lexer.tokens) has run
Init ==
    /\ tokens \in TokenSeqs \cup ObjectDocTokens
    /\ source = <<>>
    /\ index = 0
    /\ start = 0
    /\ s = <<>>
    /\ current = 0
    /\ stack = <<>>
    /\ ret = None
    /\ pc = "parse"
    /\ result = None

Next ==
    \/ Parse
    \/ ParseExpression
    \/ ParseArrayOpen
    \/ ParseArrayElement
    \/ ParseObjectOpen
    \/ ParseObjectKey
    \/ ParseObjectValue
    \/ JsonReturn

Spec == Init /\ [][Next]_vars

(* --------------------------- lexer properties ------------------------- *)

\* the outer loop is at a character that opens a string literal
AtString == pc = "lex" /\ index < Len(source) /\ CharAt(source, index) = Quote

\* the outer loop is at a character that opens a bareword
AtBareword ==
    /\ pc = "lex"
    /\ index < Len(source)
    /\ CharAt(source, index) \notin Whitespace \cup Punctuation \cup {Quote}

\* the number of backslashes that directly precede position j, from lo on
RECURSIVE BackslashRun(_, _, _)
BackslashRun(src, lo, j) ==
    IF j > lo /\ CharAt(src, j - 1) = Backslash
    THEN 1 + BackslashRun(src, lo, j - 1)
    ELSE 0

\* the quotes of a literal whose body starts at lo that no backslash escapes
ClosingQuotes(src, lo) ==
    {j \in lo..(Len(src) - 1) :
        /\ CharAt(src, j) = Quote
        /\ BackslashRun(src, lo, j) % 2 = 0
        /\ \A k \in lo..(j - 1) :
              CharAt(src, k) = Quote => BackslashRun(src, lo, k) % 2 = 1}

Terminated(src, lo) == ClosingQuotes(src, lo) # {}

ClosingQuote(src, lo) == CHOOSE j \in ClosingQuotes(src, lo) : TRUE

\* the first position from i on that holds a character of ds, or the length
FirstOf(src, i, ds) ==
    CHOOSE j \in i..Len(src) :
        /\ j = Len(src) \/ CharAt(src, j) \in ds
        /\ \A k \in i..(j - 1) : CharAt(src, k) \notin ds

CodeDelims == {c \in Chars : is_delim(c)}

\* C6: the payload of the String token of a terminated literal is the
\* characters between the opening quote and the first quote that no
\* backslash escapes, unchanged, escaped quotes and backslashes included
C6_StringPayloadVerbatim ==
    [][(AtString /\ Terminated(source, index + 1)) =>
          /\ tokens' = Append(tokens,
                StringLiteral(Slice(source, index + 1, ClosingQuote(source, index + 1))))
          /\ pc' = "lex"
          /\ result' = None]_vars

C6_Witness ==
    /\ pc = "lexed"
    /\ source = <<Quote, Backslash, Quote, Quote>>
    /\ tokens = <<StringLiteral(<<Backslash, Quote>>)>>

\* C7: the slice a bareword hands to the float parse ends at the first of
\* , { } [ ] : space, tab, newline, carriage return
C7_BarewordEndsAtDelimiter ==
    [][AtBareword =>
          s' = Slice(source, index, FirstOf(source, index, Punctuation \cup Whitespace))]_vars

\* C8: an outer iteration that completes moves the index forward to the
\* first character its token did not consume: one past a punctuation or
\* whitespace character, the delimiter that ended a bareword, one past the
\* closing quote of a string; the rewind stays at or above the token's start
C8_ResumeAfterToken ==
    [][(pc = "lex" /\ pc' = "lex") =>
          /\ index' > index
          /\ index' <= Len(source) + 1
          /\ (CharAt(source, index) \in Whitespace \cup Punctuation) =>
                index' = index + 1
          /\ AtBareword =>
                /\ index' = FirstOf(source, index, CodeDelims)
                /\ s' = Slice(source, index, index')
                /\ Rewind(ScanBareword(source, index)) >= index
                /\ Len(tokens') = Len(tokens) + 1
          /\ AtString =>
                /\ index' = index + Len(tokens'[Len(tokens')][2]) + 2
                /\ Terminated(source, index + 1) =>
                      index' = ClosingQuote(source, index + 1) + 1]_vars

C8_Witness ==
    /\ pc = "lexed"
    /\ source = <<"1", ",", Quote, Quote>>
    /\ tokens = <<NumberLiteral(<<1, 0>>), Comma, StringLiteral(<<>>)>>

\* C9: a literal that the source ends inside aborts the lexer with the
\* index past the end of the source, and never yields a String token
C9_UnterminatedStringAborts ==
    [][(AtString /\ ~Terminated(source, index + 1)) =>
          /\ result' = Panic
          /\ index' > Len(source)
          /\ tokens' = tokens]_vars

(* -------------------------- parser properties ------------------------- *)

Consumed == SubSeq(tokens, 1, current)

UnexpectedToken == Err("Unexpected token at start of expression...")

\* C1: the parser never aborts on an exhausted token vector: json returns
\* Ok or Err
C1_ExhaustedTokensReturnErr == result # Panic

\* C2: an object of n members parses to Object of exactly those n pairs in
\* token order, equal keys kept apart: the members written out again are the
\* tokens that were consumed
C2_ObjectMembersInOrder ==
    pc = "done" =>
        /\ tokens \in ObjectDocTokens =>
              /\ result[1] = "Ok"
              /\ result[2][1] = "Object"
              /\ current = Len(tokens)
        /\ result[1] = "Ok" => TokensOf(result[2]) = Consumed

C2_Witness ==
    /\ pc = "done"
    /\ current = Len(tokens)
    /\ result = Ok(Object(<< <<<<"b">>, Array(<<Number(One)>>)>>,
                            <<<<"b">>, String(<<"a">>)>> >>))

\* C3: an opening token directly followed by its closing token gives the
\* empty container in one step, two tokens further, with no loop entered,
\* at the top level or nested
C3_EmptyContainers ==
    /\ [](pc = "done" =>
            /\ tokens = <<LeftBrace, RightBrace>> => result = Ok(Object(<<>>))
            /\ tokens = <<LeftBracket, RightBracket>> => result = Ok(Array(<<>>)))
    /\ [][/\ ( /\ pc = "parse_array"
               /\ current + 1 < Len(tokens)
               /\ TokenAt(tokens, current) = LeftBracket
               /\ TokenAt(tokens, current + 1) = RightBracket ) =>
                  /\ ret' = Ok(Array(<<>>))
                  /\ current' = current + 2
                  /\ stack' = stack
                  /\ pc' = "return"
          /\ ( /\ pc = "parse_object"
               /\ current + 1 < Len(tokens)
               /\ TokenAt(tokens, current) = LeftBrace
               /\ TokenAt(tokens, current + 1) = RightBrace ) =>
                  /\ ret' = Ok(Object(<<>>))
                  /\ current' = current + 2
                  /\ stack' = stack
                  /\ pc' = "return"]_vars

C3_Witness ==
    /\ pc = "done"
    /\ tokens = <<LeftBracket, LeftBrace, RightBrace, RightBracket>>
    /\ result = Ok(Array(<<Object(<<>>)>>))
    /\ current = 4

\* C4: a first token other than LeftBrace and LeftBracket makes parse return
\* an error with the index still 0, and parse_expression is never entered,
\* although parse_expression takes a Number or String token where it is called
C4_TopLevelMustOpen ==
    /\ []((tokens # <<>> /\ tokens[1] \notin {LeftBrace, LeftBracket}) =>
            /\ current = 0
            /\ stack = <<>>
            /\ pc \in {"parse", "return", "done"}
            /\ pc = "return" => ret[1] = "Err"
            /\ pc = "done" => result[1] = "Err")
    /\ [][( /\ pc = "parse_expression"
            /\ current < Len(tokens)
            /\ TokenAt(tokens, current)[1] \in {"NumberLiteral", "StringLiteral"} ) =>
               /\ ret'[1] = "Ok"
               /\ ret'[2][2] = TokenAt(tokens, current)[2]
               /\ current' = current + 1]_vars

C4_Witness ==
    /\ pc = "done"
    /\ tokens = <<NumberLiteral(One)>>
    /\ result = Err("")
    /\ current = 0

\* the array loop has consumed a comma and stands before a RightBracket
AfterTrailingComma ==
    /\ pc = "parse_expression"
    /\ stack # <<>>
    /\ Top.fn = "parse_array"
    /\ Top.acc # <<>>
    /\ current < Len(tokens)
    /\ TokenAt(tokens, current) = RightBracket

\* C5: after a comma the array loop always parses another expression, which
\* fails on RightBracket; the error goes up unchanged and no array is
\* returned; no accepted input has a comma directly before a RightBracket
C5_TrailingCommaRejected ==
    /\ [](pc = "done" /\ result[1] = "Ok" =>
            \A i \in 1..(current - 1) :
                ~(tokens[i] = Comma /\ tokens[i + 1] = RightBracket))
    /\ [][/\ ( /\ pc = "return" /\ stack # <<>> /\ Top.fn = "parse_array"
               /\ ret[1] = "Ok"
               /\ current < Len(tokens)
               /\ TokenAt(tokens, current) = Comma ) =>
                  (pc' = "parse_expression" /\ current' = current + 1)
          /\ AfterTrailingComma =>
                  (pc' = "return" /\ ret' = UnexpectedToken /\ stack' = stack)
          /\ (pc = "return" /\ ret[1] = "Err") =>
                  /\ ret' = ret
                  /\ current' = current
                  /\ IF stack = <<>> THEN result' = ret
                     ELSE stack' = Pop /\ pc' = "return"]_vars

C5_Witness ==
    /\ pc = "done"
    /\ tokens = <<LeftBracket, NumberLiteral(One), Comma, RightBracket>>
    /\ result = UnexpectedToken
    /\ current = 3

\* C10: an Ok result means the whole token vector was consumed
C10_OkConsumesAllTokens ==
    (pc = "done" /\ result[1] = "Ok") => current = Len(tokens)

====
